---- MODULE Spec2Model ----
(***************************************************************************)
(* A model of fame/model.py: the Metamodel descriptor and its lazy build,  *)
(* the Model entity with its attribute-style and index-style accessors,    *)
(* Field, DerivedField and Constraint, and the validation generator; of    *)
(* fame/matchers.py: the matchers a field is declared with; and of threads *)
(* that perform the first access to a record type at the same time.        *)
(*                                                                         *)
(* Python values are written as the strings of their repr: "None", "True", *)
(* "100", "'button'".  A module is a list of class-body statements; Import *)
(* runs them in order, as the interpreter does on import.                  *)
(***************************************************************************)
EXTENDS Naturals, Sequences, FiniteSets, TLC

VARIABLES
    most_recent_metamodel,  \* the module global of fame/model.py
    classes,                \* per record type: the class object, once its body ran
    metamodel,              \* per record type: the Metamodel created by @schema in its body
    defining,               \* the class whose body the interpreter is executing
    declared,               \* history: the constraints in the order they were declared
    entity,                 \* the Model instances: data and instance __dict__
    builds,                 \* history: executions of each schema-building routine
    accessed,               \* history: record types whose metamodel attribute was read
    calls,                  \* history: initializer invocations per entity
    strict_seen,            \* history: the value the first strict read of a field returned
    ops,                    \* the number of operations the program has performed
    last,                   \* the most recent operation and what it returned
    since,                  \* history, per entity: the error_messages() calls since its data was set
    born,                   \* history, per entity: the 'callonce' entry it was constructed with
    probe,                  \* the matcher call or field check made last, and its result
    thread,                 \* per thread: where it is in its first access, and how it ended
    shared,                 \* the Metamodel object the threads share: its attributes
    routine_runs,           \* history: executions of the schema-building routine by threads
    half_built              \* history: a thread resolved a field against unfinished tables

vars == <<most_recent_metamodel, classes, metamodel, defining, declared,
          entity, builds, accessed, calls, strict_seen, ops, last, since, born, probe,
          thread, shared, routine_runs, half_built>>

defvars == <<most_recent_metamodel, classes, metamodel, defining, declared>>

runvars == <<entity, builds, accessed, calls, strict_seen, ops, last, since, born>>

matchvars == <<probe>>

threadvars == <<thread, shared, routine_runs, half_built>>

-----------------------------------------------------------------------------
(* Bounds *)

MaxEntities == 2

MaxOps == 4

MaxCount == 2

MaxConstraints == 2

MaxThreads == 2

-----------------------------------------------------------------------------
(* Python values *)

None == "None"

Absent == "<absent>"

NoResult == "<no result>"

Types == {"Example", "Broken"}

Names == {"name", "percent_exposed", "callonce", "whatnot"}

IntValues == {"100", "200", "9000"}

StrValues == {"'button'", "'gibberish'", "''", "'foo'", "'bar'", "'user'", "'covfefe'",
              "'http://a'", "'https://a'", "'xhttp://'"}

ListValues == {"[]", "['user']", "[100]"}

Values == {None, "True", "False"} \cup IntValues \cup StrValues \cup ListValues

BoolValues == {"True", "False"}

\* str(value), as "{}".format(value) renders it
Str(v) ==
    CASE v = "'button'" -> "button"
      [] v = "'gibberish'" -> "gibberish"
      [] v = "'foo'" -> "foo"
      [] v = "'bar'" -> "bar"
      [] v = "''" -> ""
      [] v = "'user'" -> "user"
      [] v = "'covfefe'" -> "covfefe"
      [] v = "'http://a'" -> "http://a"
      [] v = "'https://a'" -> "https://a"
      [] v = "'xhttp://'" -> "xhttp://"
      [] OTHER -> v

\* the characters of a string
Chars(v) ==
    CASE v = "'button'" -> <<"b", "u", "t", "t", "o", "n">>
      [] v = "'gibberish'" -> <<"g", "i", "b", "b", "e", "r", "i", "s", "h">>
      [] v = "'foo'" -> <<"f", "o", "o">>
      [] v = "'bar'" -> <<"b", "a", "r">>
      [] v = "''" -> <<>>
      [] v = "'user'" -> <<"u", "s", "e", "r">>
      [] v = "'covfefe'" -> <<"c", "o", "v", "f", "e", "f", "e">>
      [] v = "'http://a'" -> <<"h", "t", "t", "p", ":", "/", "/", "a">>
      [] v = "'https://a'" -> <<"h", "t", "t", "p", "s", ":", "/", "/", "a">>
      [] v = "'xhttp://'" -> <<"x", "h", "t", "t", "p", ":", "/", "/">>

\* the elements of a list
Elements(v) ==
    CASE v = "[]" -> <<>>
      [] v = "['user']" -> <<"'user'">>
      [] v = "[100]" -> <<"100">>

\* isinstance(value, type); bool is a subclass of int
IsInstance(v, type) ==
    CASE type = "basestring" -> v \in StrValues
      [] type = "int" -> v \in IntValues \cup BoolValues
      [] type = "list" -> v \in ListValues
      [] OTHER -> FALSE

\* int(value) of the numbers
IntOf(v) == IF v = "9000" THEN 9000 ELSE IF v = "200" THEN 200 ELSE 100

\* value > 100, for the numbers a percent_exposed resolves to here
GreaterThan100(v) == v \in IntValues /\ IntOf(v) > 100

-----------------------------------------------------------------------------
(* matchers.py *)

\* a type declaration is a class of Python or a matcher
Class(name) == [kind |-> "class", type |-> name]

as_matcher(type_declaration) ==
    IF type_declaration.kind = "class"
    THEN IF type_declaration.type = "str"
         THEN [kind |-> "type", type |-> "basestring"]
         ELSE [kind |-> "type", type |-> type_declaration.type]
    ELSE type_declaration

TypeMatcher(match, value) == IsInstance(value, match.type)

MatcherStr(match) == match.type

\* the constructors: array(...), nullable(...), options(...), regexp(...)
ArrayMatcherInit(type_declaration) == [kind |-> "array", match |-> as_matcher(type_declaration)]

NullableMatcherInit(type_declaration) ==
    [kind |-> "nullable", match |-> as_matcher(type_declaration)]

OptionsMatcherInit(strings) == [kind |-> "options", options |-> strings]

\* re.compile(pattern), for the patterns used here: whether the expression is
\* anchored at the start, and its characters, each possibly optional
Compile(pattern) ==
    LET One(ch) == [ch |-> ch, optional |-> FALSE]
        Opt(ch) == [ch |-> ch, optional |-> TRUE]
    IN  CASE pattern = "^https?://" ->
                [pattern |-> pattern, anchored |-> TRUE,
                 atoms |-> <<One("h"), One("t"), One("t"), One("p"), Opt("s"),
                             One(":"), One("/"), One("/")>>]
          [] pattern = "fe" ->
                [pattern |-> pattern, anchored |-> FALSE, atoms |-> <<One("f"), One("e")>>]
          [] pattern = "" ->
                [pattern |-> pattern, anchored |-> FALSE, atoms |-> <<>>]

RegularExpressionMatcherInit(pattern) == [kind |-> "regexp", regexp |-> Compile(pattern)]

AnythingMatcherInit == [kind |-> "anything"]

ReservedMatcherInit == [kind |-> "reserved"]

\* bool(value) of the values a matcher returns
Truthy(v) == v \notin {None, "False"}

Bool(b) == IF b THEN "True" ELSE "False"

\* the expression matches when read from position i of the characters
RECURSIVE MatchAt(_, _, _)
MatchAt(atoms, chars, i) ==
    IF atoms = <<>> THEN TRUE
    ELSE \/ /\ i <= Len(chars)
            /\ chars[i] = Head(atoms).ch
            /\ MatchAt(Tail(atoms), chars, i + 1)
         \/ /\ Head(atoms).optional
            /\ MatchAt(Tail(atoms), chars, i)

\* regexp.search(string): a match object, or None
Search(regexp, chars) ==
    IF \E i \in 1..(Len(chars) + 1) :
           /\ regexp.anchored => i = 1
           /\ MatchAt(regexp.atoms, chars, i)
    THEN "<match>" ELSE None

RECURSIVE Call(_, _)

\* a variant that leaves the decision to the inner matcher
NullableMatcherInnerOnly(match, value) == Call(match.match, value)

\* (value is None) or self.match(value)
NullableMatcher(match, value) ==
    IF value = None THEN "True" ELSE Call(match.match, value)

RECURSIVE AllMatch(_, _)
AllMatch(match, values) ==
    IF values = <<>> THEN TRUE
    ELSE Truthy(Call(match, Head(values))) /\ AllMatch(match, Tail(values))

ArrayMatcher(match, values) ==
    IF ~IsInstance(values, "list") THEN "False"
    ELSE Bool(AllMatch(match.match, Elements(values)))

OptionsMatcher(match, value) == Bool(value \in match.options)

RegularExpressionMatcher(match, value) ==
    IF ~IsInstance(value, "basestring") THEN "False"
    ELSE Search(match.regexp, Chars(value))

AnythingMatcher(match, value) == "True"

ReservedMatcher(match, value) == "False"

\* match(value): what the matcher's __call__ returns
Call(match, value) ==
    CASE match.kind = "type" -> Bool(TypeMatcher(match, value))
      [] match.kind = "array" -> ArrayMatcher(match, value)
      [] match.kind = "nullable" -> NullableMatcher(match, value)
      [] match.kind = "options" -> OptionsMatcher(match, value)
      [] match.kind = "regexp" -> RegularExpressionMatcher(match, value)
      [] match.kind = "anything" -> AnythingMatcher(match, value)
      [] match.kind = "reserved" -> ReservedMatcher(match, value)

-----------------------------------------------------------------------------
(* str.format with positional "{}" placeholders *)

RECURSIVE FormatFrom(_, _, _)
FormatFrom(pieces, args, next) ==
    IF pieces = <<>> THEN [raised |-> "", text |-> ""]
    ELSE IF Head(pieces) = "{}"
         THEN IF next > Len(args)
              THEN [raised |-> "IndexError", text |-> ""]
              ELSE LET rest == FormatFrom(Tail(pieces), args, next + 1)
                   IN  [raised |-> rest.raised, text |-> Str(args[next]) \o rest.text]
         ELSE LET rest == FormatFrom(Tail(pieces), args, next)
              IN  [raised |-> rest.raised, text |-> Head(pieces) \o rest.text]

Format(pieces, args) == FormatFrom(pieces, args, 1)

-----------------------------------------------------------------------------
(* The record types of the test module, tests/test__model.py *)

ConstraintKinds == {"exceeds", "false", "pair", "echo", "once"}

\* the message a constraint is declared with, cut at its placeholders
ConstraintMessage(kind) ==
    CASE kind = "exceeds" -> <<"expected percent_exposed to not exceed 100, got ", "{}">>
      [] kind = "false" -> <<"exepected to not return ", "{}">>
      [] kind = "pair" -> <<"exepected to not return ", "{}", " and ", "{}">>
      [] kind = "echo" -> <<"{}">>
      [] kind = "once" -> <<"expected callonce to be True, got ", "{}">>

\* Field.__init__
FieldInit(name, type_declaration, default) ==
    [name |-> name, match |-> as_matcher(type_declaration), default |-> default]

\* the m.field(...) calls of each schema-building routine, in call order
SchemaFields(t) ==
    IF t = "Example"
    THEN << FieldInit("name", Class("str"), None),
            FieldInit("percent_exposed", Class("int"), "100") >>
    ELSE << >>

\* the orders in which a dict of these fields can iterate
FieldOrders(t) ==
    LET fs == SchemaFields(t)
    IN  IF Len(fs) = 2 THEN {fs, <<fs[2], fs[1]>>} ELSE {fs}

\* the @derived_field functions of each class body
DerivedFields(t) == IF t = "Example" THEN {"callonce"} ELSE {}

Range(s) == {s[i] : i \in 1..Len(s)}

-----------------------------------------------------------------------------
(* Import time: Metamodel.__init__, DerivedField.__init__, Constraint.__call__ *)

NoMetamodel ==
    [exists |-> FALSE, pending_initialization |-> FALSE, name |-> Absent,
     fields |-> <<>>, derived_fields |-> {}, constraints |-> <<>>]

NoClass == [defined |-> FALSE, derived |-> {}]

\* the interpreter state a class body works on
Interp == [most_recent_metamodel |-> most_recent_metamodel, classes |-> classes,
           metamodel |-> metamodel, defining |-> defining, declared |-> declared]

FreshInterp ==
    [most_recent_metamodel |-> None, classes |-> [t \in Types |-> NoClass],
     metamodel |-> [t \in Types |-> NoMetamodel], defining |-> None, declared |-> <<>>]

ClassBody(in, t) == [in EXCEPT !.defining = t]

MetamodelInit(in) ==
    LET t == in.defining
    IN  [in EXCEPT !.metamodel[t] = [NoMetamodel EXCEPT !.exists = TRUE,
                                                        !.pending_initialization = TRUE,
                                                        !.constraints = <<>>],
                   !.most_recent_metamodel = t]

DerivedFieldInit(in, n) ==
    [in EXCEPT !.classes[in.defining].derived = @ \cup {n}]

\* Constraint(message)(function): the constraint goes to the metamodel that was
\* created last; with none created yet the append raises and the class body is
\* abandoned
ConstraintCall(in, kind) ==
    LET c == [id |-> Len(in.declared) + 1, owner |-> in.defining, kind |-> kind]
    IN  IF in.most_recent_metamodel = None
        THEN [in EXCEPT !.defining = None, !.classes[in.defining] = NoClass]
        ELSE [in EXCEPT !.metamodel[in.most_recent_metamodel].constraints = Append(@, c),
                        !.declared = Append(@, c)]

ClassCreated(in) ==
    [in EXCEPT !.classes[in.defining].defined = TRUE, !.defining = None]

Statement(in, st) ==
    CASE st.op = "class" -> ClassBody(in, st.arg)
      [] st.op = "schema" -> MetamodelInit(in)
      [] st.op = "derived_field" -> DerivedFieldInit(in, st.arg)
      [] st.op = "constraint" -> ConstraintCall(in, st.arg)
      [] st.op = "end" -> ClassCreated(in)

RECURSIVE Import(_, _)
Import(in, module) ==
    IF module = <<>> THEN in ELSE Import(Statement(in, Head(module)), Tail(module))

\* the module the tests import; Example gets a second constraint that reports
\* the text found under 'whatnot' and a third that reads the derived field
TestModule ==
    << [op |-> "class", arg |-> "Example"], [op |-> "schema", arg |-> ""],
       [op |-> "derived_field", arg |-> "callonce"],
       [op |-> "constraint", arg |-> "exceeds"], [op |-> "constraint", arg |-> "echo"],
       [op |-> "constraint", arg |-> "once"],
       [op |-> "end", arg |-> ""],
       [op |-> "class", arg |-> "Broken"], [op |-> "schema", arg |-> ""],
       [op |-> "constraint", arg |-> "false"], [op |-> "constraint", arg |-> "pair"],
       [op |-> "end", arg |-> ""] >>

Commit(in) ==
    /\ most_recent_metamodel' = in.most_recent_metamodel
    /\ classes' = in.classes
    /\ metamodel' = in.metamodel
    /\ defining' = in.defining
    /\ declared' = in.declared

ConstraintsIn(in, t) == {i \in 1..Len(in.declared) : in.declared[i].owner = t}

DefineClass(t) ==
    /\ defining = None
    /\ ~classes[t].defined
    /\ ~metamodel[t].exists
    /\ Commit(ClassBody(Interp, t))
    /\ UNCHANGED <<runvars, matchvars, threadvars>>

DeclareSchema ==
    /\ defining # None
    /\ ~metamodel[defining].exists
    /\ Commit(MetamodelInit(Interp))
    /\ UNCHANGED <<runvars, matchvars, threadvars>>

DeclareDerivedField(n) ==
    /\ defining # None
    /\ n \in DerivedFields(defining)
    /\ n \notin classes[defining].derived
    /\ Commit(DerivedFieldInit(Interp, n))
    /\ UNCHANGED <<runvars, matchvars, threadvars>>

DeclareConstraint(kind) ==
    /\ defining # None
    /\ Cardinality(ConstraintsIn(Interp, defining)) < MaxConstraints
    /\ Commit(ConstraintCall(Interp, kind))
    /\ UNCHANGED <<runvars, matchvars, threadvars>>

EndClass ==
    /\ defining # None
    /\ Commit(ClassCreated(Interp))
    /\ UNCHANGED <<runvars, matchvars, threadvars>>


-----------------------------------------------------------------------------
(* Run time: the world the accessors work on, and what a call gives back *)

Entities == 1..MaxEntities

AttrNames == Names \cup {"metamodel"}

NoItems == [k \in Names |-> Absent]

NoneData == [isNone |-> TRUE, items |-> NoItems]

Dict(items) == [isNone |-> FALSE, items |-> items]

NoEntity ==
    [alive |-> FALSE, cls |-> None, data |-> NoneData, dict |-> [a \in AttrNames |-> Absent]]

World(order) ==
    [metamodel |-> metamodel, entity |-> entity, builds |-> builds, accessed |-> accessed,
     calls |-> calls, strict_seen |-> strict_seen, order |-> order,
     invoked |-> [e \in Entities |-> 0]]

Return(w, value) == [w |-> w, value |-> value, raised |-> "", via |-> ""]

Raise(w, error) == [w |-> w, value |-> NoResult, raised |-> error, via |-> ""]

Min(a, b) == IF a < b THEN a ELSE b

FieldNames(mm) == {mm.fields[i].name : i \in 1..Len(mm.fields)}

FieldNamed(mm, n) == mm.fields[CHOOSE i \in 1..Len(mm.fields) : mm.fields[i].name = n]

\* setattr(entity, name, value)
SetAttr(w, e, n, value) == [w EXCEPT !.entity[e].dict[n] = value]

-----------------------------------------------------------------------------
(* Metamodel.finish_initialization and Metamodel.__get__ *)

FinishInitializationKeepsRoutine(w, t, cls) ==
    [w EXCEPT !.metamodel[t].name = cls,
              !.metamodel[t].fields = w.order[cls],
              !.metamodel[t].derived_fields = classes[cls].derived,
              !.builds[t] = Min(@ + 1, MaxCount)]

FinishInitialization(w, t, cls) ==
    [w EXCEPT !.metamodel[t].name = cls,
              !.metamodel[t].fields = w.order[cls],
              !.metamodel[t].derived_fields = classes[cls].derived,
              !.metamodel[t].pending_initialization = FALSE,
              !.builds[t] = Min(@ + 1, MaxCount)]

\* a variant that hands out the metamodel created last instead of self
MetamodelGetMostRecent(w, t, instance, cls) ==
    LET w1 == IF w.metamodel[t].pending_initialization
              THEN FinishInitialization(w, t, cls) ELSE w
        w2 == [w1 EXCEPT !.accessed = @ \cup {t}]
        w3 == IF instance # 0
              THEN SetAttr(w2, instance, "metamodel", most_recent_metamodel) ELSE w2
    IN  Return(w3, most_recent_metamodel)

\* the descriptor protocol: instance is 0 when the attribute is read on the class
MetamodelGet(w, t, instance, cls) ==
    LET w1 == IF w.metamodel[t].pending_initialization
              THEN FinishInitialization(w, t, cls) ELSE w
        w2 == [w1 EXCEPT !.accessed = @ \cup {t}]
        w3 == IF instance # 0 THEN SetAttr(w2, instance, "metamodel", t) ELSE w2
    IN  Return(w3, t)

-----------------------------------------------------------------------------
(* Field.get_value, DerivedField.get_value, DerivedField.__get__ *)

\* dict.get(key): None for a missing key
DictGet(items, key) == IF items[key] = Absent THEN None ELSE items[key]

\* a variant that substitutes the default for a missing key only
FieldGetValueMissingOnly(w, field, e) ==
    LET data == w.entity[e].data
    IN  IF data.isNone THEN Raise(w, "AttributeError")
        ELSE Return(w, IF data.items[field.name] = Absent
                       THEN field.default ELSE data.items[field.name])

FieldGetValue(w, field, e) ==
    LET data == w.entity[e].data
    IN  IF data.isNone THEN Raise(w, "AttributeError")
        ELSE LET value == DictGet(data.items, field.name)
             IN  Return(w, IF value = None THEN field.default ELSE value)

\* the @derived_field function of the test module
Initializer(n, w, e) == "True"

\* the initializer is called: counted over the life of the entity and within
\* the operation under way
Invoked(w, e) ==
    [w EXCEPT !.calls[e] = Min(@ + 1, MaxCount), !.invoked[e] = Min(@ + 1, MaxCount)]

\* a variant that returns the initializer's result without storing it
DerivedFieldGetValueNoStore(w, n, e) ==
    LET data == w.entity[e].data
    IN  IF data.isNone THEN Raise(w, "TypeError")
        ELSE IF data.items[n] = Absent
             THEN Return(Invoked(w, e), Initializer(n, w, e))
             ELSE Return(w, data.items[n])

\* a variant that takes a None entry for a missing one
DerivedFieldGetValueNoneIsMissing(w, n, e) ==
    LET data == w.entity[e].data
    IN  IF data.isNone THEN Raise(w, "TypeError")
        ELSE IF data.items[n] \in {Absent, None}
             THEN LET value == Initializer(n, w, e)
                      w1 == [Invoked(w, e) EXCEPT !.entity[e].data.items[n] = value]
                  IN  Return(w1, w1.entity[e].data.items[n])
             ELSE Return(w, data.items[n])

DerivedFieldGetValue(w, n, e) ==
    LET data == w.entity[e].data
    IN  IF data.isNone THEN Raise(w, "TypeError")
        ELSE IF data.items[n] = Absent
             THEN LET value == Initializer(n, w, e)
                      w1 == [Invoked(w, e) EXCEPT !.entity[e].data.items[n] = value]
                  IN  Return(w1, w1.entity[e].data.items[n])
             ELSE Return(w, data.items[n])

DerivedFieldGet(w, n, obj) ==
    LET Memoize(r) == IF r.raised # "" THEN r
                      ELSE Return(SetAttr(r.w, obj, n, r.value), r.value)
    IN  Memoize(DerivedFieldGetValue(w, n, obj))

-----------------------------------------------------------------------------
(* Metamodel.get_field_value, Model.__getattr__, Model.__getitem__ *)

\* a variant that does not look at strict
GetFieldValueLenient(w, t, e, field_name, strict) ==
    LET mm == w.metamodel[t]
    IN  IF field_name \in FieldNames(mm)
        THEN FieldGetValue(w, FieldNamed(mm, field_name), e)
        ELSE IF field_name \in mm.derived_fields
        THEN DerivedFieldGetValue(w, field_name, e)
        ELSE IF w.entity[e].data.isNone THEN Raise(w, "AttributeError")
        ELSE Return(w, DictGet(w.entity[e].data.items, field_name))

GetFieldValue(w, t, e, field_name, strict) ==
    LET mm == w.metamodel[t]
    IN  IF field_name \in FieldNames(mm)
        THEN FieldGetValue(w, FieldNamed(mm, field_name), e)
        ELSE IF field_name \in mm.derived_fields
        THEN DerivedFieldGetValue(w, field_name, e)
        ELSE IF strict THEN Raise(w, "AttributeError")
        ELSE IF w.entity[e].data.isNone THEN Raise(w, "AttributeError")
        ELSE Return(w, DictGet(w.entity[e].data.items, field_name))

\* entity.metamodel: the instance __dict__ shadows the descriptor of the class
GetMetamodel(w, e) ==
    LET ent == w.entity[e]
    IN  IF ent.dict["metamodel"] # Absent
        THEN Return(w, ent.dict["metamodel"])
        ELSE MetamodelGet(w, ent.cls, e, ent.cls)

\* a variant that does not memoize the attribute
ModelGetattrNoMemo(w, e, field_name) ==
    LET Resolve(m) == GetFieldValue(m.w, m.value, e, field_name, TRUE)
    IN  Resolve(GetMetamodel(w, e))

ModelGetattr(w, e, field_name) ==
    LET Resolve(m) == GetFieldValue(m.w, m.value, e, field_name, TRUE)
        Memoize(r) == IF r.raised # "" THEN r
                      ELSE Return(SetAttr(r.w, e, field_name, r.value), r.value)
    IN  Memoize(Resolve(GetMetamodel(w, e)))

\* the first strict read of a declared field is remembered
Seen(w, e, n, value) ==
    IF /\ n \in FieldNames(w.metamodel[w.entity[e].cls])
       /\ w.strict_seen[e][n] = Absent
    THEN [w EXCEPT !.strict_seen[e][n] = value]
    ELSE w

\* entity.<name>: the instance __dict__, then the descriptors of the class,
\* then Model.__getattr__
GetAttribute(w, e, n) ==
    LET ent == w.entity[e]
        Remember(r) == IF r.raised # "" \/ n = "metamodel" THEN r
                       ELSE [r EXCEPT !.w = Seen(r.w, e, n, r.value)]
    IN  Remember(IF ent.dict[n] # Absent
                 THEN [Return(w, ent.dict[n]) EXCEPT !.via = "dict"]
                 ELSE IF n = "metamodel"
                 THEN [MetamodelGet(w, ent.cls, e, ent.cls) EXCEPT !.via = "descriptor"]
                 ELSE IF n \in classes[ent.cls].derived
                 THEN [DerivedFieldGet(w, n, e) EXCEPT !.via = "descriptor"]
                 ELSE [ModelGetattr(w, e, n) EXCEPT !.via = "getattr"])

ModelGetitem(w, e, field_name) ==
    LET Resolve(m) == GetFieldValue(m.w, m.value, e, field_name, FALSE)
    IN  Resolve(GetMetamodel(w, e))


-----------------------------------------------------------------------------
(* Constraint.error_message *)

\* the functions the test module decorates with @constraint; a result is
\* None, one value or a tuple of values
Nothing(w) == [w |-> w, kind |-> "None", items |-> <<>>, raised |-> ""]

Predicate(w, kind, e) ==
    CASE kind = "exceeds" ->
            LET Exceeds(r) ==
                    IF r.raised # "" THEN [Nothing(r.w) EXCEPT !.raised = r.raised]
                    ELSE IF GreaterThan100(r.value)
                         THEN [Nothing(r.w) EXCEPT !.kind = "value", !.items = <<r.value>>]
                         ELSE Nothing(r.w)
            IN  Exceeds(GetAttribute(w, e, "percent_exposed"))
      [] kind = "false" -> [Nothing(w) EXCEPT !.kind = "value", !.items = <<"False">>]
      [] kind = "pair" -> [Nothing(w) EXCEPT !.kind = "tuple", !.items = <<"'foo'", "'bar'">>]
      [] kind = "once" ->
            LET Once(r) ==
                    IF r.raised # "" THEN [Nothing(r.w) EXCEPT !.raised = r.raised]
                    ELSE IF r.value \in {"True", None} THEN Nothing(r.w)
                         ELSE [Nothing(r.w) EXCEPT !.kind = "value", !.items = <<r.value>>]
            IN  Once(ModelGetitem(w, e, "callonce"))
      [] kind = "echo" ->
            LET Echo(r) ==
                    IF r.raised # "" THEN [Nothing(r.w) EXCEPT !.raised = r.raised]
                    ELSE IF r.value = None THEN Nothing(r.w)
                         ELSE [Nothing(r.w) EXCEPT !.kind = "value", !.items = <<r.value>>]
            IN  Echo(ModelGetitem(w, e, "whatnot"))

\* gives [isNone, text]: None, or the formatted message
ConstraintErrorMessage(w, constraint, e) ==
    LET Formatted(values, text) ==
            IF values.raised # ""
            THEN [w |-> values.w, isNone |-> TRUE, text |-> "", raised |-> values.raised]
            ELSE IF values.kind = "None"
            THEN [w |-> values.w, isNone |-> TRUE, text |-> "", raised |-> ""]
            ELSE [w |-> values.w, isNone |-> FALSE, text |-> text.text,
                  raised |-> text.raised]
        Message(values) ==
            Formatted(values, Format(ConstraintMessage(constraint.kind), values.items))
    IN  Message(Predicate(w, constraint.kind, e))

-----------------------------------------------------------------------------
(* Metamodel.error_messages_prefix, Metamodel.error_messages *)

\* hex(id(entity))
HexId(e) == "0x" \o ToString(e)

ErrorMessagesPrefix(w, t, e) ==
    LET mm == w.metamodel[t]
    IN  IF "name" \in FieldNames(mm)
        THEN LET Named(r) ==
                     IF r.raised # "" THEN [w |-> r.w, text |-> "", raised |-> r.raised]
                     ELSE [w |-> r.w, raised |-> "",
                           text |-> mm.name \o " '" \o Str(r.value) \o "'"]
             IN  Named(GetAttribute(w, e, "name"))
        ELSE [w |-> w, text |-> mm.name \o " at " \o HexId(e), raised |-> ""]

\* one turn of the first loop: nothing, or one message
FieldStep(w, t, field, e) ==
    LET Yield(v, prefix) ==
            [w |-> prefix.w, yields |-> prefix.raised = "", raised |-> prefix.raised,
             text |-> prefix.text \o " expected field '" \o field.name \o "' to be "
                      \o MatcherStr(field.match) \o ", got " \o Str(v.value)]
        Match(v) ==
            IF v.raised # ""
            THEN [w |-> v.w, yields |-> FALSE, text |-> "", raised |-> v.raised]
            ELSE IF Truthy(Call(field.match, v.value))
            THEN [w |-> v.w, yields |-> FALSE, text |-> "", raised |-> ""]
            ELSE Yield(v, ErrorMessagesPrefix(v.w, t, e))
    IN  Match(FieldGetValue(w, field, e))

\* one turn of the second loop: "if error_message:" is the truth value of the
\* formatted text
ConstraintStep(w, t, constraint, e) ==
    LET Yield(m, prefix) ==
            [w |-> prefix.w, yields |-> prefix.raised = "", raised |-> prefix.raised,
             text |-> prefix.text \o " " \o m.text]
        Check(m) ==
            IF m.raised # ""
            THEN [w |-> m.w, yields |-> FALSE, text |-> "", raised |-> m.raised]
            ELSE IF m.isNone \/ m.text = ""
            THEN [w |-> m.w, yields |-> FALSE, text |-> "", raised |-> ""]
            ELSE Yield(m, ErrorMessagesPrefix(m.w, t, e))
    IN  Check(ConstraintErrorMessage(w, constraint, e))

\* the generator, run until it is exhausted, or (lazy) until the consumer
\* any() has seen a true item; work is the fields, then the constraints
RECURSIVE Generate(_, _, _, _, _, _)
Generate(w, t, e, work, msgs, lazy) ==
    IF work = <<>> THEN [w |-> w, msgs |-> msgs, raised |-> ""]
    ELSE LET item == Head(work)
             Resume(step) ==
                 IF step.raised # ""
                 THEN [w |-> step.w, msgs |-> msgs, raised |-> step.raised]
                 ELSE IF ~step.yields THEN Generate(step.w, t, e, Tail(work), msgs, lazy)
                 ELSE IF lazy /\ step.text # ""
                 THEN [w |-> step.w, msgs |-> Append(msgs, step.text), raised |-> ""]
                 ELSE Generate(step.w, t, e, Tail(work), Append(msgs, step.text), lazy)
         IN  Resume(IF item.loop = "fields"
                    THEN FieldStep(w, t, item.spec, e)
                    ELSE ConstraintStep(w, t, item.spec, e))

MetamodelErrorMessages(w, t, e, lazy) ==
    LET mm == w.metamodel[t]
        work == [i \in 1..Len(mm.fields) |-> [loop |-> "fields", spec |-> mm.fields[i]]]
                \o [i \in 1..Len(mm.constraints) |->
                        [loop |-> "constraints", spec |-> mm.constraints[i]]]
    IN  Generate(w, t, e, work, <<>>, lazy)

-----------------------------------------------------------------------------
(* Model.error_messages, Model.is_valid *)

\* list(entity.error_messages())
ModelErrorMessages(w, e) ==
    LET Messages(m) == MetamodelErrorMessages(m.w, m.value, e, FALSE)
    IN  Messages(GetMetamodel(w, e))

\* not any(self.error_messages())
ModelIsValid(w, e) ==
    LET Messages(m) == MetamodelErrorMessages(m.w, m.value, e, TRUE)
        NotAny(g) == [w |-> g.w, raised |-> g.raised,
                      valid |-> \A i \in 1..Len(g.msgs) : g.msgs[i] = ""]
    IN  NotAny(Messages(GetMetamodel(w, e)))


-----------------------------------------------------------------------------
(* The operations of a program that uses the record types *)

Payload(name, percent_exposed, callonce, whatnot) ==
    [k \in Names |->
        CASE k = "name" -> name
          [] k = "percent_exposed" -> percent_exposed
          [] k = "callonce" -> callonce
          [] k = "whatnot" -> whatnot]

\* the keyword arguments entities are constructed from
Payloads(cls) ==
    IF cls = "Example"
    THEN { Payload(Absent, Absent, Absent, Absent),
           Payload(Absent, "200", "'foo'", "'gibberish'"),
           Payload("'button'", None, Absent, "''"),
           Payload("'button'", Absent, None, Absent) }
    ELSE { Payload(Absent, Absent, Absent, Absent),
           Payload("'button'", Absent, Absent, "'gibberish'") }

Orders == {o \in [Types -> UNION {FieldOrders(t) : t \in Types}] :
              \A t \in Types : o[t] \in FieldOrders(t)}

Did(op, e, name) ==
    [op |-> op, e |-> e, name |-> name, value |-> NoResult, raised |-> "",
     via |-> "", valid |-> FALSE, msgs |-> <<>>]

RunCommit(w) ==
    /\ metamodel' = w.metamodel
    /\ entity' = w.entity
    /\ builds' = w.builds
    /\ accessed' = w.accessed
    /\ calls' = w.calls
    /\ strict_seen' = w.strict_seen
    /\ ops' = ops + 1
    /\ UNCHANGED <<most_recent_metamodel, classes, defining, declared>>
    /\ UNCHANGED <<matchvars, threadvars>>

\* no error_messages() call since the data of the entity was set
NoRun == [count |-> 0, msgs |-> <<>>, raised |-> "", invoked |-> 0]

\* one more error_messages() call on the same data: the first result is kept,
\* the initializer invocations of the calls are added up
Repeated(run, r, e) ==
    [count |-> Min(run.count + 1, MaxCount),
     msgs |-> IF run.count = 0 THEN r.msgs ELSE run.msgs,
     raised |-> IF run.count = 0 THEN r.raised ELSE run.raised,
     invoked |-> Min(run.invoked + r.w.invoked[e], MaxCount)]

\* Model.__init__: cls(**payload)
ModelInit(w, e, cls, payload) ==
    [w EXCEPT !.entity[e] = [NoEntity EXCEPT !.alive = TRUE, !.cls = cls,
                                             !.data = Dict(payload)]]

New(cls, payload) ==
    /\ ops < MaxOps
    /\ \E e \in Entities :
          /\ ~entity[e].alive
          /\ \A d \in Entities : d < e => entity[d].alive
          /\ RunCommit(ModelInit(World(<<>>), e, cls, payload))
          /\ last' = Did("new", e, "")
          /\ since' = [since EXCEPT ![e] = NoRun]
          /\ born' = [born EXCEPT ![e] = [entry |-> payload["callonce"], replaced |-> FALSE]]

\* entity.<name>
ReadAttribute(e, n) ==
    /\ ops < MaxOps
    /\ entity[e].alive
    /\ \E order \in Orders :
          \E r \in {GetAttribute(World(order), e, n)} :
              /\ RunCommit(r.w)
              /\ last' = [Did("attribute", e, n) EXCEPT !.value = r.value,
                                                        !.raised = r.raised, !.via = r.via]
              /\ UNCHANGED <<since, born>>

\* entity[<name>]
ReadItem(e, n) ==
    /\ ops < MaxOps
    /\ entity[e].alive
    /\ \E order \in Orders :
          \E r \in {ModelGetitem(World(order), e, n)} :
              /\ RunCommit(r.w)
              /\ last' = [Did("item", e, n) EXCEPT !.value = r.value, !.raised = r.raised]
              /\ UNCHANGED <<since, born>>

\* entity.is_valid()
IsValid(e) ==
    /\ ops < MaxOps
    /\ entity[e].alive
    /\ \E order \in Orders :
          \E r \in {ModelIsValid(World(order), e)} :
              /\ RunCommit(r.w)
              /\ last' = [Did("is_valid", e, "") EXCEPT !.valid = r.valid, !.raised = r.raised]
              /\ UNCHANGED <<since, born>>

\* list(entity.error_messages())
ErrorMessages(e) ==
    /\ ops < MaxOps
    /\ entity[e].alive
    /\ \E order \in Orders :
          \E r \in {ModelErrorMessages(World(order), e)} :
              /\ RunCommit(r.w)
              /\ last' = [Did("error_messages", e, "") EXCEPT !.msgs = r.msgs,
                                                              !.raised = r.raised]
              /\ since' = [since EXCEPT ![e] = Repeated(@, r, e)]
              /\ UNCHANGED born

\* entity.data = payload, or entity.data = None
SetData(e, data) ==
    /\ ops < MaxOps
    /\ entity[e].alive
    /\ entity[e].data # data
    /\ RunCommit([World(<<>>) EXCEPT !.entity[e].data = data])
    /\ last' = Did("set_data", e, "")
    /\ since' = [since EXCEPT ![e] = NoRun]
    /\ born' = [born EXCEPT ![e].replaced = TRUE]

\* cls.metamodel
ClassMetamodel(cls) ==
    /\ ops < MaxOps
    /\ \E order \in Orders :
          \E r \in {MetamodelGet(World(order), cls, 0, cls)} :
              /\ RunCommit(r.w)
              /\ last' = [Did("class_metamodel", 0, cls) EXCEPT !.value = r.value]
              /\ UNCHANGED <<since, born>>

-----------------------------------------------------------------------------
(* Matchers applied to values, and to the value of a field *)

Patterns == {"^https?://", "fe", ""}

\* what a field is declared with: classes and matchers
TypeDeclarations ==
    {Class("str"), Class("int"), AnythingMatcherInit, ReservedMatcherInit,
     OptionsMatcherInit({"'user'", "'visitor'"}), ArrayMatcherInit(Class("str")),
     NullableMatcherInit(Class("str")),
     NullableMatcherInit(RegularExpressionMatcherInit("^https?://"))}
    \cup {RegularExpressionMatcherInit(p) : p \in Patterns}

Matchers ==
    {as_matcher(d) : d \in TypeDeclarations}
    \cup {NullableMatcherInit(d) : d \in TypeDeclarations}

Candidates ==
    {None, "True", "100", "9000", "''", "'user'", "'covfefe'", "'http://a'", "'https://a'",
     "'xhttp://'", "[]", "['user']", "[100]"}

NoProbe ==
    [op |-> "none", match |-> AnythingMatcherInit, value |-> NoResult, entry |-> Absent,
     result |-> NoResult, valid |-> FALSE]

MatchInit == probe = NoProbe

\* an entity that holds entry under the name 'design', or no entry
DesignWorld(entry) ==
    [entity |-> [e \in {1} |-> [data |-> Dict([k \in {"design"} |-> entry])]]]

\* "if not field.match(value)" of the first loop of error_messages
FieldMatches(w, field, e) ==
    LET Matched(v) == Truthy(Call(field.match, v.value))
    IN  Matched(FieldGetValue(w, field, e))

\* match(value)
Match(match, value) ==
    /\ probe' = [NoProbe EXCEPT !.op = "match", !.match = match, !.value = value,
                                !.result = Call(match, value)]
    /\ UNCHANGED <<defvars, runvars, threadvars>>

\* the check of a field 'design' declared with the matcher, default None
Validate(match, entry) ==
    /\ probe' = [NoProbe EXCEPT
                    !.op = "validate", !.match = match, !.entry = entry,
                    !.valid = FieldMatches(DesignWorld(entry),
                                           FieldInit("design", match, None), 1)]
    /\ UNCHANGED <<defvars, runvars, threadvars>>

-----------------------------------------------------------------------------
(* Threads: each reads the field 'name' of its own Example entity, the first  *)
(* access to the record type; a step is one statement of Metamodel.__get__,   *)
(* finish_initialization, the schema-building routine and get_field_value     *)

Threads == 1..MaxThreads

\* the Metamodel of Example as its class body leaves it: fields and
\* derived_fields are not attributes of it yet
SharedInit ==
    [pending_initialization |-> TRUE, name |-> Absent,
     has_fields |-> FALSE, fields |-> <<>>,
     has_derived_fields |-> FALSE, derived_fields |-> {}]

ThreadInit ==
    /\ thread = [t \in Threads |-> [pc |-> "get", k |-> 1, raised |-> ""]]
    /\ shared = SharedInit
    /\ routine_runs = 0
    /\ half_built = FALSE

At(t, pc) == thread[t].pc = pc

Goto(t, pc) == thread' = [thread EXCEPT ![t].pc = pc]

\* self.fields[field.name] = field
Put(fields, field) ==
    IF \E i \in 1..Len(fields) : fields[i].name = field.name
    THEN [i \in 1..Len(fields) |-> IF fields[i].name = field.name THEN field ELSE fields[i]]
    ELSE Append(fields, field)

\* if self.pending_initialization: ...
GetEnter(t) ==
    /\ At(t, "get")
    /\ UNCHANGED <<defvars, runvars, matchvars>>
    /\ Goto(t, IF shared.pending_initialization THEN "name" ELSE "memoize")
    /\ UNCHANGED <<shared, routine_runs, half_built>>

\* self.name = model.__name__
FinishName(t) ==
    /\ At(t, "name")
    /\ UNCHANGED <<defvars, runvars, matchvars>>
    /\ shared' = [shared EXCEPT !.name = "Example"]
    /\ Goto(t, "fields")
    /\ UNCHANGED <<routine_runs, half_built>>

\* self.fields = {}
FinishFields(t) ==
    /\ At(t, "fields")
    /\ UNCHANGED <<defvars, runvars, matchvars>>
    /\ shared' = [shared EXCEPT !.has_fields = TRUE, !.fields = <<>>]
    /\ Goto(t, "routine")
    /\ UNCHANGED <<routine_runs, half_built>>

\* self.pending_initialization(None, self): the call of the routine, or of None
FinishRoutine(t) ==
    /\ At(t, "routine")
    /\ UNCHANGED <<defvars, runvars, matchvars>>
    /\ IF shared.pending_initialization
       THEN /\ routine_runs' = Min(routine_runs + 1, MaxCount)
            /\ thread' = [thread EXCEPT ![t].pc = "field", ![t].k = 1]
       ELSE /\ thread' = [thread EXCEPT ![t].pc = "done", ![t].raised = "TypeError"]
            /\ UNCHANGED routine_runs
    /\ UNCHANGED <<shared, half_built>>

\* one m.field(...) call of the routine, or its return
RoutineField(t) ==
    /\ At(t, "field")
    /\ UNCHANGED <<defvars, runvars, matchvars>>
    /\ IF thread[t].k <= Len(SchemaFields("Example"))
       THEN /\ shared' = [shared EXCEPT !.fields = Put(@, SchemaFields("Example")[thread[t].k])]
            /\ thread' = [thread EXCEPT ![t].k = @ + 1]
       ELSE /\ Goto(t, "derived")
            /\ UNCHANGED shared
    /\ UNCHANGED <<routine_runs, half_built>>

\* self.derived_fields = {...}
FinishDerivedFields(t) ==
    /\ At(t, "derived")
    /\ UNCHANGED <<defvars, runvars, matchvars>>
    /\ shared' = [shared EXCEPT !.has_derived_fields = TRUE,
                                !.derived_fields = classes["Example"].derived]
    /\ Goto(t, "clear")
    /\ UNCHANGED <<routine_runs, half_built>>

\* self.pending_initialization = None
FinishClear(t) ==
    /\ At(t, "clear")
    /\ UNCHANGED <<defvars, runvars, matchvars>>
    /\ shared' = [shared EXCEPT !.pending_initialization = FALSE]
    /\ Goto(t, "memoize")
    /\ UNCHANGED <<routine_runs, half_built>>

\* setattr(receiver, 'metamodel', self); return self
GetMemoize(t) ==
    /\ At(t, "memoize")
    /\ UNCHANGED <<defvars, runvars, matchvars>>
    /\ Goto(t, "resolve")
    /\ UNCHANGED <<shared, routine_runs, half_built>>

Populated ==
    /\ shared.has_fields
    /\ Len(shared.fields) = Len(SchemaFields("Example"))
    /\ shared.has_derived_fields

\* get_field_value(entity, 'name', strict=True)
ResolveField(t) ==
    /\ At(t, "resolve")
    /\ UNCHANGED <<defvars, runvars, matchvars>>
    /\ half_built' = (half_built \/ ~Populated)
    /\ thread' = [thread EXCEPT
                     ![t].pc = "done",
                     ![t].raised =
                         IF ~shared.has_fields THEN "AttributeError"
                         ELSE IF "name" \in {shared.fields[i].name : i \in 1..Len(shared.fields)}
                         THEN ""
                         ELSE "AttributeError"]
    /\ UNCHANGED <<shared, routine_runs>>

ThreadStep(t) ==
    \/ GetEnter(t)
    \/ FinishName(t)
    \/ FinishFields(t)
    \/ FinishRoutine(t)
    \/ RoutineField(t)
    \/ FinishDerivedFields(t)
    \/ FinishClear(t)
    \/ GetMemoize(t)
    \/ ResolveField(t)

-----------------------------------------------------------------------------
(* Specifications *)

RunInit ==
    /\ entity = [e \in Entities |-> NoEntity]
    /\ builds = [t \in Types |-> 0]
    /\ accessed = {}
    /\ calls = [e \in Entities |-> 0]
    /\ strict_seen = [e \in Entities |-> [n \in Names |-> Absent]]
    /\ ops = 0
    /\ last = Did("import", 0, "")
    /\ since = [e \in Entities |-> NoRun]
    /\ born = [e \in Entities |-> [entry |-> Absent, replaced |-> FALSE]]

Imported(in) ==
    /\ most_recent_metamodel = in.most_recent_metamodel
    /\ classes = in.classes
    /\ metamodel = in.metamodel
    /\ defining = in.defining
    /\ declared = in.declared

\* the program after it has imported the test module
Init == Imported(Import(FreshInterp, TestModule)) /\ RunInit /\ MatchInit /\ ThreadInit

Next ==
    \/ \E cls \in Types : \E payload \in Payloads(cls) : New(cls, payload)
    \/ \E e \in Entities, n \in AttrNames : ReadAttribute(e, n)
    \/ \E e \in Entities, n \in Names : ReadItem(e, n)
    \/ \E e \in Entities : IsValid(e)
    \/ \E e \in Entities : ErrorMessages(e)
    \/ \E e \in Entities : \E payload \in Payloads(entity[e].cls) : SetData(e, Dict(payload))
    \/ \E e \in Entities : SetData(e, NoneData)
    \/ \E cls \in Types : ClassMetamodel(cls)

Spec == Init /\ [][Next]_vars

\* the interpreter importing a module, one class-body statement at a time
DefInit == Imported(FreshInterp) /\ RunInit /\ MatchInit /\ ThreadInit

DefNext ==
    \/ \E t \in Types : DefineClass(t)
    \/ DeclareSchema
    \/ \E n \in Names : DeclareDerivedField(n)
    \/ \E kind \in ConstraintKinds : DeclareConstraint(kind)
    \/ EndClass

DefSpec == DefInit /\ [][DefNext]_vars

\* matchers applied to candidate values
MatchNext ==
    \/ \E match \in Matchers, value \in Candidates : Match(match, value)
    \/ \E match \in Matchers, entry \in Candidates \cup {Absent} : Validate(match, entry)

MatchSpec == DefInit /\ [][MatchNext]_vars

\* threads of a program that has imported the test module
ThreadNext == \E t \in Threads : ThreadStep(t)

ThreadSpec == Init /\ [][ThreadNext]_vars


-----------------------------------------------------------------------------
(* Properties *)

Here == World(<<>>)

Alive == {e \in Entities : entity[e].alive}

\* the entities whose record type has a built metamodel and whose data is a mapping
Resolvable == {e \in Alive : /\ ~metamodel[entity[e].cls].pending_initialization
                             /\ ~entity[e].data.isNone}

\* the names the record type of an entity declares as fields, as derived fields
Declared(e) == {SchemaFields(entity[e].cls)[i].name : i \in 1..Len(SchemaFields(entity[e].cls))}

Derived(e) == classes[entity[e].cls].derived

IsRead == last.op \in {"attribute", "item"} /\ last.name \in Names

\* C1: in a single thread, over any sequence of constructions, reads and
\* validations, a schema-building routine runs at most once, it has run exactly
\* once as soon as the metamodel has been accessed, and once it has run the
\* metamodel no longer holds it.
BuildOnce ==
    \A t \in Types :
        /\ builds[t] <= 1
        /\ t \in accessed => builds[t] = 1
        /\ builds[t] >= 1 => ~metamodel[t].pending_initialization

BuildOnceWitness ==
    \E e1, e2 \in Alive :
        /\ e1 # e2
        /\ entity[e1].cls = entity[e2].cls
        /\ entity[e1].dict["metamodel"] # Absent
        /\ entity[e2].dict["metamodel"] # Absent
        /\ builds[entity[e1].cls] = 1

\* C2: the initializer of a derived field runs at most once per entity over
\* any strict and lenient reads, and every read after the first returns the
\* value that one run computed, also when the data store was cleared or
\* replaced in between.
DerivedMemoized ==
    /\ \A e \in Entities : calls[e] <= 1
    /\ (IsRead /\ last.name \in Derived(last.e) /\ calls[last.e] >= 1)
          => (last.raised = "" /\ last.value = Initializer(last.name, Here, last.e))

\* C4: for a name that is neither a field nor a derived field, attribute-style
\* access raises even when the data holds the key, and index-style access of an
\* entity whose data is a mapping returns the raw entry, or None without one.
UnknownName ==
    (IsRead /\ last.name \notin Declared(last.e) \cup Derived(last.e))
        => /\ last.op = "attribute" => last.raised = "AttributeError"
           /\ (last.op = "item" /\ ~entity[last.e].data.isNone)
                 => /\ last.raised = ""
                    /\ last.value = DictGet(entity[last.e].data.items, last.name)

UnknownNameWitness ==
    /\ last.op = "attribute"
    /\ last.name = "whatnot"
    /\ last.raised = "AttributeError"
    /\ entity[last.e].data.items["whatnot"] = "'gibberish'"

\* C5: resolving a declared field, through attribute-style or index-style
\* access, gives the default when the data has no entry or a None entry for
\* the name, and the stored value otherwise.
DefaultSubstitution ==
    (IsRead /\ last.via # "dict" /\ last.name \in Declared(last.e)
            /\ ~entity[last.e].data.isNone)
        => LET stored == entity[last.e].data.items[last.name]
               field == FieldNamed(metamodel[entity[last.e].cls], last.name)
           IN  /\ last.raised = ""
               /\ stored \in {Absent, None} => last.value = field.default
               /\ stored \notin {Absent, None} => last.value = stored

DefaultSubstitutionWitness ==
    /\ last.op = "attribute"
    /\ last.via = "getattr"
    /\ last.name = "percent_exposed"
    /\ entity[last.e].data.items["percent_exposed"] = None
    /\ last.value = "100"

\* C6: every entity that has read its metamodel attribute holds the one
\* Metamodel of its record type, which is built; reading the attribute on an
\* entity or on the class gives that same object.
SharedMetamodel ==
    /\ \A e \in Alive :
          entity[e].dict["metamodel"] # Absent
              => /\ entity[e].dict["metamodel"] = entity[e].cls
                 /\ ~metamodel[entity[e].cls].pending_initialization
                 /\ metamodel[entity[e].cls].name = entity[e].cls
    /\ (last.op = "attribute" /\ last.name = "metamodel") => last.value = entity[last.e].cls
    /\ last.op = "class_metamodel" => last.value = last.name

SharedMetamodelWitness ==
    /\ last.op = "attribute"
    /\ last.name = "metamodel"
    /\ \E e \in Alive :
          /\ e # last.e
          /\ entity[e].cls = entity[last.e].cls
          /\ entity[e].dict["metamodel"] = last.value

\* C9: once a declared field has been read through attribute-style access,
\* every later attribute-style read of it on the same entity succeeds and
\* returns the value of the first read, whatever has happened to the data.
StrictMemoized ==
    (last.op = "attribute" /\ last.name \in Names /\ last.name \in Declared(last.e)
                           /\ strict_seen[last.e][last.name] # Absent)
        => /\ last.raised = ""
           /\ last.value = strict_seen[last.e][last.name]

StrictMemoizedWitness ==
    /\ last.op = "attribute"
    /\ last.name = "percent_exposed"
    /\ last.via = "dict"
    /\ ~entity[last.e].data.isNone
    /\ FieldGetValue(Here, FieldNamed(metamodel[entity[last.e].cls], last.name), last.e).value
          # last.value


\* what the validation of an entity has to report: the declared fields whose
\* resolved value the matcher rejects, and the constraints whose function
\* returns something other than None
FailingFields(e) ==
    SelectSeq(metamodel[entity[e].cls].fields,
              LAMBDA f : ~TypeMatcher(f.match, FieldGetValue(Here, f, e).value))

ViolatedConstraints(e) ==
    SelectSeq(metamodel[entity[e].cls].constraints,
              LAMBDA c : Predicate(Here, c.kind, e).kind # "None")

FieldViolation(e, f) ==
    ErrorMessagesPrefix(Here, entity[e].cls, e).text \o " expected field '" \o f.name
        \o "' to be " \o MatcherStr(f.match) \o ", got " \o Str(FieldGetValue(Here, f, e).value)

\* the message formatted with one argument per returned value
ConstraintViolation(e, c) ==
    ErrorMessagesPrefix(Here, entity[e].cls, e).text \o " "
        \o Format(ConstraintMessage(c.kind), Predicate(Here, c.kind, e).items).text

Listed == last.op = "error_messages" /\ last.raised = "" /\ last.e \in Resolvable

\* C3: error_messages() yields one message for each of the N failing fields
\* and each of the M violated constraints, N+M in all, the field messages
\* first and the constraint messages after them in declaration order.
AllViolationsListed ==
    Listed =>
        LET ff == FailingFields(last.e)
            vc == ViolatedConstraints(last.e)
        IN  /\ Len(last.msgs) = Len(ff) + Len(vc)
            /\ {last.msgs[i] : i \in 1..Len(ff)} = {FieldViolation(last.e, ff[i]) : i \in 1..Len(ff)}
            /\ \A j \in 1..Len(vc) : last.msgs[Len(ff) + j] = ConstraintViolation(last.e, vc[j])

\* C7: a constraint contributes its message, formatted with one argument per
\* returned value, exactly when its function returns something other than None.
ConstraintReported ==
    Listed =>
        \A c \in Range(metamodel[entity[last.e].cls].constraints) :
            (ConstraintViolation(last.e, c) \in Range(last.msgs))
                <=> (Predicate(Here, c.kind, last.e).kind # "None")

\* C8: is_valid() does not raise, it is true exactly when error_messages()
\* yields nothing, and a failing field or a violated constraint makes it false.
ValidIffNoMessages ==
    (last.op = "is_valid" /\ last.e \in Resolvable) =>
        /\ last.raised = ""
        /\ last.valid <=> (ModelErrorMessages(Here, last.e).msgs = <<>>)
        /\ (FailingFields(last.e) # <<>> \/ ViolatedConstraints(last.e) # <<>>) => ~last.valid

\* C10: once the class bodies have run, every declared constraint is in the
\* list of the metamodel of the record type that declares it and in no other
\* list, and every list is in declaration order.
ConstraintsOwned ==
    defining = None =>
        /\ \A i \in 1..Len(declared) : \A t \in Types :
              (declared[i] \in Range(metamodel[t].constraints)) <=> (t = declared[i].owner)
        /\ \A t \in Types : \A i, j \in 1..Len(metamodel[t].constraints) :
              i < j => metamodel[t].constraints[i].id < metamodel[t].constraints[j].id

PreMemoized ==
    \A e \in Alive : \A n \in Derived(e) :
        ~born[e].replaced =>
            /\ born[e].entry # Absent =>
                   /\ calls[e] = 0
                   /\ entity[e].data.items[n] = born[e].entry
                   /\ (IsRead /\ last.e = e /\ last.name = n /\ last.raised = "") =>
                          last.value = born[e].entry
            /\ born[e].entry = Absent =>
                   /\ calls[e] = 0 => entity[e].data.items[n] = Absent
                   /\ calls[e] > 0 => entity[e].data.items[n] = Initializer(n, Here, e)
                   /\ (IsRead /\ last.e = e /\ last.name = n /\ last.raised = "") =>
                          /\ calls[e] = 1
                          /\ last.value = Initializer(n, Here, e)

PreMemoizedWitness ==
    \E e1, e2 \in Alive :
        /\ ~born[e1].replaced /\ born[e1].entry = None
        /\ entity[e1].dict["callonce"] = None
        /\ ~born[e2].replaced /\ born[e2].entry = Absent
        /\ IsRead /\ last.e = e2 /\ last.name = "callonce" /\ last.value = "True"
        /\ calls[e2] = 1

-----------------------------------------------------------------------------
(* Properties of the matchers *)

\* the strings among the candidates that each pattern is expected to match
Matching(pattern) ==
    CASE pattern = "^https?://" -> {"'http://a'", "'https://a'"}
      [] pattern = "fe" -> {"'covfefe'"}
      [] pattern = "" -> {"''", "'user'", "'covfefe'", "'http://a'", "'https://a'", "'xhttp://'"}

\* C11: nullable(inner) accepts a value exactly when the value is None or the
\* inner matcher accepts it; a field declared nullable(regexp(p)) with no
\* default is valid when its entry is absent or None, valid for a string that
\* p matches, and invalid for every other string and every other value.
NullableAccepts ==
    /\ (probe.op = "match" /\ probe.match.kind = "nullable") =>
           (Truthy(probe.result) <=>
               (probe.value = None \/ Truthy(Call(probe.match.match, probe.value))))
    /\ \A p \in Patterns :
           (/\ probe.op = "validate"
            /\ probe.match = NullableMatcherInit(RegularExpressionMatcherInit(p))) =>
               (probe.valid <=> probe.entry \in {Absent, None} \cup Matching(p))

NullableAcceptsWitness ==
    /\ probe.op = "validate"
    /\ probe.match = NullableMatcherInit(RegularExpressionMatcherInit("^https?://"))
    /\ probe.entry = "9000"
    /\ ~probe.valid

-----------------------------------------------------------------------------
(* Properties of threads *)

\* C12: when two threads concurrently perform the first access to entities of
\* one record type, the schema-building routine runs at most once and no
\* thread resolves a field against a metamodel whose tables are not yet fully
\* populated.
ConcurrentBuildOnce == routine_runs <= 1 /\ ~half_built

====
